---- MODULE Spec2Model ----
(***************************************************************************)
(* RansomEye DPI Advanced fast path.                                       *)
(*   ebpf_flow_tracker.c : xdp_flow_tracker, the kernel flow table         *)
(*   af_packet_capture.c : af_packet_init, af_packet_process (TPACKET_V3)  *)
(*                                                                         *)
(* Frames are byte sequences; the header fields are read at the byte       *)
(* offsets the C structures give them (struct ethhdr, iphdr, tcphdr,       *)
(* udphdr), on a little-endian host, so that a raw load of a big-endian    *)
(* wire field is the byte-swapped number.                                  *)
(***************************************************************************)
EXTENDS Integers, Sequences, FiniteSets, TLC

VARIABLES
    flow_map,   \* flow_map: the BPF hash map, a function present keys -> flow_stats
    now,        \* the monotonic clock bpf_ktime_get_ns reads
    pc,         \* per receive queue: position inside xdp_flow_tracker
    ctx,        \* per receive queue: the frame of the running invocation (xdp_md)
    key,        \* per receive queue: the local struct flow_key
    trace,      \* per receive queue: bounds checks and header loads of the invocation
    regs,       \* per receive queue: new_stats / values loaded through *stats
    rc,         \* per receive queue: return value of bpf_map_update_elem
    verdict,    \* per receive queue: the XDP action returned
    sent,       \* history: per flow key, packets and bytes that passed the header checks
    npkts,      \* history: number of invocations started
    \* ---- af_packet_init ----
    ipc,        \* position inside af_packet_init
    ifname,     \* the interface argument of the running call
    sockfd,     \* the local sockfd
    ring,       \* the local ring (result of mmap); NoRing before mmap, MAP_FAILED on failure
    fds,        \* descriptors open in the process
    rx_rings,   \* sockets on which the kernel holds an RX ring, with their request
    mappings,   \* ring regions mapped in the process, by socket
    calls,      \* system calls issued by the running call, in order
    failed,     \* the step of the running call that failed, or "none"
    result,     \* the value returned by the call
    history,    \* history: (failed step, result) of the calls that returned
    nopens,     \* history: number of calls started
    \* ---- the shared ring and af_packet_process ----
    blocks,     \* the ring blocks the kernel has opened: descriptor and frames
    kblk,       \* the block the kernel is filling
    upc,        \* position inside af_packet_process
    uargs,      \* its arguments block_idx and frame_idx
    uframe,     \* its local frame, as a byte offset from ring
    ureads,     \* the loads of the running call from the ring, in order
    nframes     \* history: frames written by the kernel

flowvars == <<flow_map, now, pc, ctx, key, trace, regs, rc, verdict, sent, npkts>>
openvars == <<ipc, ifname, sockfd, ring, fds, rx_rings, mappings, calls, failed, result,
              history, nopens>>
ringvars == <<blocks, kblk, upc, uargs, uframe, ureads, nframes>>
vars == <<flowvars, openvars, ringvars>>

(***************************************************************************)
(* Bounds of the model.                                                    *)
(***************************************************************************)
\* MAX_FLOWS of ebpf_flow_tracker.c:20 is 65536; the table is scaled down so
\* that TLC can fill it, with room for two flows side by side.
MAX_FLOWS == 2
\* packets received in one behaviour with concurrent receive queues
MaxPackets == 2
\* packets received in one behaviour when they are processed one at a time
MaxSeqPackets == 3
\* packets received in one behaviour of the extraction specification
MaxExtract == 1
\* largest value of the monotonic clock
MaxTime == 1
\* calls of af_packet_init in one behaviour
MaxOpens == 2
\* frames the kernel writes into the ring in one behaviour
MaxFrames == 3
\* receive queues (CPUs) that run xdp_flow_tracker concurrently
RxQueues == {1, 2}

(***************************************************************************)
(* Protocol constants and header sizes (the sizeof of the kernel structs). *)
(***************************************************************************)
ETH_P_IP == 2048
ETH_P_IPV6 == 34525
IPPROTO_ICMP == 1
IPPROTO_TCP == 6
IPPROTO_UDP == 17
ETH_HLEN == 14
IPHDR_LEN == 20
TCPHDR_LEN == 20
UDPHDR_LEN == 8
XDP_PASS == 2
E2BIG == 7

Min(a, b) == IF a < b THEN a ELSE b

(***************************************************************************)
(* Byte order.  Be16/Be32: the bytes of a field as they are on the wire.   *)
(* Load16/Load32: what a C load of a __be16/__be32 member yields on the    *)
(* little-endian host; no ntohs is applied by the code.                    *)
(***************************************************************************)
Be16(v) == <<v \div 256, v % 256>>
Htons(v) == (v % 256) * 256 + (v \div 256)
\* an IPv4 address is kept as its four octets a.b.c.d, which is its wire order;
\* Raw32 is the host integer whose memory image is these four bytes
Raw32(o) == o[1] + 256 * o[2] + 65536 * o[3] + 16777216 * o[4]

\* a byte of the captured frame; beyond data_end the content is not the frame's
ByteAt(b, off) == IF off < Len(b) THEN b[off + 1] ELSE 0
Load8(b, off) == ByteAt(b, off)
Load16(b, off) == ByteAt(b, off) + 256 * ByteAt(b, off + 1)
Load32(b, off) ==
    ByteAt(b, off) + 256 * ByteAt(b, off + 1)
    + 65536 * ByteAt(b, off + 2) + 16777216 * ByteAt(b, off + 3)

(***************************************************************************)
(* Frames on the wire.  A frame descriptor says what the sender built; the *)
(* program only ever sees Captured(f), the first snap bytes of Wire(f).    *)
(***************************************************************************)
Fill(n, v) == [i \in 1..n |-> v]

EthBytes(f) == <<2, 0, 0, 0, 0, 2>> \o <<2, 0, 0, 0, 0, 1>> \o Be16(f.etype)

\* IP options, when IHL > 5: NOP NOP NOP EOL per 32-bit word
IpOptions(f) ==
    IF f.ihl = 5 THEN <<>>
    ELSE IF f.ihl = 6 THEN <<1, 1, 1, 0>>
    ELSE Fill((f.ihl - 5) * 4, 1)

TransportLen(f) ==
    IF f.proto = IPPROTO_TCP THEN TCPHDR_LEN ELSE UDPHDR_LEN

IpBytes(f) ==
    <<64 + f.ihl, 0>> \o Be16(f.ihl * 4 + TransportLen(f) + f.paylen)
    \o <<0, 0, 64, 0, 64, f.proto, 0, 0>> \o f.saddr \o f.daddr
    \o IpOptions(f)

TransportBytes(f) ==
    IF f.proto = IPPROTO_TCP
    THEN Be16(f.sport) \o Be16(f.dport) \o <<0, 0, 0, 1, 0, 0, 0, 0, 80, 2>>
         \o <<255, 255, 0, 0, 0, 0>>
    ELSE IF f.proto = IPPROTO_UDP
    THEN Be16(f.sport) \o Be16(f.dport) \o Be16(UDPHDR_LEN + f.paylen) \o <<0, 0>>
    ELSE <<8, 0, 0, 0, 0, 1, 0, 1>>

Wire(f) ==
    IF f.etype = ETH_P_IP
    THEN EthBytes(f) \o IpBytes(f) \o TransportBytes(f) \o Fill(f.paylen, 171)
    ELSE EthBytes(f) \o Fill(40 + f.paylen, 96)

Captured(f) == SubSeq(Wire(f), 1, Min(f.snap, Len(Wire(f))))

\* ctx->data_end - ctx->data
FrameLen(f) == Len(Captured(f))

(***************************************************************************)
(* xdp_flow_tracker, lines 51-94: the header checks and the flow key.      *)
(* The trace lists, in program order, every comparison against data_end    *)
(* (the first byte offset past the tested header) and every load from the  *)
(* frame (offset and size).                                                *)
(***************************************************************************)
Chk(end) == [op |-> "check", end |-> end]
Ld(field, off, size) == [op |-> "load", field |-> field, off |-> off, size |-> size]

NoKey == [src_ip |-> -1, dst_ip |-> -1, src_port |-> -1, dst_port |-> -1, protocol |-> -1]

\* line 55: (void *)(eth + 1) > data_end is false
EthFits(len) == ETH_HLEN <= len

\* a slip in line 60: the EtherType is not looked at
IsIpv4_Any(b) == TRUE

\* line 60: eth->h_proto != htons(ETH_P_IP) is false
IsIpv4(b) == Load16(b, 12) = Htons(ETH_P_IP)

\* a slip in line 65: the IPv4 header is tested as if it ended where it starts
IpFits_EthOnly(len) == ETH_HLEN <= len

\* line 65: (void *)(ip + 1) > data_end is false; ip + 1 is 20 bytes past ip
IpFits(len) == ETH_HLEN + IPHDR_LEN <= len

\* lines 78 and 87: the transport header is taken at (ip + 1), whatever ip->ihl is
L4Offset(b) == ETH_HLEN + IPHDR_LEN

\* line 79: (void *)(tcp + 1) > data_end is false; tested for TCP and for UDP
TcpFits(b) == L4Offset(b) + TCPHDR_LEN <= Len(b)

\* line 88: (void *)(udp + 1) > data_end is false
UdpFits(b) == L4Offset(b) + UDPHDR_LEN <= Len(b)

\* lines 70-74: the designated initializer; the ports not named are zero.  A key is
\* its five members: the three padding bytes after protocol are taken as zero.
KeyInit(b) ==
    [src_ip |-> Load32(b, ETH_HLEN + 12), dst_ip |-> Load32(b, ETH_HLEN + 16),
     src_port |-> 0, dst_port |-> 0, protocol |-> Load8(b, ETH_HLEN + 9)]

\* lines 84-85 and 91-92: source and dest are the first two 16-bit members
WithPorts(k, b) ==
    [k EXCEPT !.src_port = Load16(b, L4Offset(b)), !.dst_port = Load16(b, L4Offset(b) + 2)]

\* a variant of line 77: every protocol but ICMP is taken to carry ports
HasPorts_NotIcmp(p) == p # IPPROTO_ICMP

\* line 77: ip->protocol == IPPROTO_TCP || ip->protocol == IPPROTO_UDP
HasPorts(p) == p = IPPROTO_TCP \/ p = IPPROTO_UDP

Skip(tr) == [skip |-> TRUE, key |-> NoKey, trace |-> tr]
Emit(k, tr) == [skip |-> FALSE, key |-> k, trace |-> tr]

XdpParse(b) ==
    LET t1 == <<Chk(ETH_HLEN)>>
        t2 == t1 \o <<Ld("h_proto", 12, 2)>>
        t3 == t2 \o <<Chk(ETH_HLEN + IPHDR_LEN)>>
        t4 == t3 \o <<Ld("saddr", ETH_HLEN + 12, 4), Ld("daddr", ETH_HLEN + 16, 4),
                      Ld("protocol", ETH_HLEN + 9, 1)>>
        t5 == t4 \o <<Chk(L4Offset(b) + TCPHDR_LEN)>>
        ports == <<Ld("source", L4Offset(b), 2), Ld("dest", L4Offset(b) + 2, 2)>>
        k == KeyInit(b)
    IN  IF ~EthFits(Len(b)) THEN Skip(t1)
        ELSE IF ~IsIpv4(b) THEN Skip(t2)
        ELSE IF ~IpFits(Len(b)) THEN Skip(t3)
        ELSE IF ~HasPorts(k.protocol) THEN Emit(k, t4)
        ELSE IF ~TcpFits(b) THEN Skip(t5)
        ELSE IF k.protocol = IPPROTO_TCP THEN Emit(WithPorts(k, b), t5 \o ports)
        ELSE IF ~UdpFits(b) THEN Skip(t5 \o <<Chk(L4Offset(b) + UDPHDR_LEN)>>)
        ELSE Emit(WithPorts(k, b), t5 \o <<Chk(L4Offset(b) + UDPHDR_LEN)>> \o ports)

(***************************************************************************)
(* The BPF hash map flow_map (lines 38-43): max_entries keys, no eviction. *)
(***************************************************************************)
Present == DOMAIN flow_map

\* bpf_map_lookup_elem: a pointer to the value, or NULL
MapHas(m, k) == k \in DOMAIN m

\* bpf_map_update_elem(.., BPF_ANY): replace the value of a present key; insert an
\* absent key while fewer than max_entries keys are held; else fail with -E2BIG
MapUpdateRc(m, k) ==
    IF k \in DOMAIN m \/ Cardinality(DOMAIN m) < MAX_FLOWS THEN 0 ELSE 0 - E2BIG

\* a slip in the map: a full table makes room by dropping a key it holds
MapUpdate_Evict(m, k, v) ==
    IF MapUpdateRc(m, k) = 0
    THEN [x \in DOMAIN m \cup {k} |-> IF x = k THEN v ELSE m[x]]
    ELSE LET victim == CHOOSE x \in DOMAIN m : TRUE
         IN  [x \in (DOMAIN m \ {victim}) \cup {k} |-> IF x = k THEN v ELSE m[x]]

MapUpdate(m, k, v) ==
    IF MapUpdateRc(m, k) = 0
    THEN [x \in DOMAIN m \cup {k} |-> IF x = k THEN v ELSE m[x]]
    ELSE m

\* lines 99-104: new_stats; l7_protocol is not named, so it is zero
NewStats(len, first, last) ==
    [packet_count |-> 1, byte_count |-> len, l7_protocol |-> 0,
     first_seen |-> first, last_seen |-> last]

\* line 107: packet_count++ stores the loaded value plus one
IncPackets(loaded) == loaded + 1

\* a slip in line 108: = in place of +=
AddBytes_Assign(loaded, len) == len

\* line 108: byte_count += frame length stores the loaded value plus the length
AddBytes(loaded, len) == loaded + len

NoFrame == [etype |-> 0, ihl |-> 0, proto |-> 0, saddr |-> << >>, daddr |-> << >>,
            sport |-> 0, dport |-> 0, paylen |-> 0, snap |-> 0]
NoRegs == [a |-> 0, b |-> 0]
NoSent == [pkts |-> 0, bytes |-> 0]

SentOf(k) == IF k \in DOMAIN sent THEN sent[k] ELSE NoSent

Account(k, len) ==
    [x \in DOMAIN sent \cup {k} |->
        IF x = k THEN [pkts |-> SentOf(k).pkts + 1, bytes |-> SentOf(k).bytes + len]
        ELSE sent[x]]

(***************************************************************************)
(* Frames offered to the flow table.                                       *)
(***************************************************************************)
Ip(a, b, c, d) == <<a, b, c, d>>

Frame(proto, saddr, daddr, sport, dport, paylen) ==
    [etype |-> ETH_P_IP, ihl |-> 5, proto |-> proto, saddr |-> saddr, daddr |-> daddr,
     sport |-> sport, dport |-> dport, paylen |-> paylen, snap |-> 2048]

\* two lengths of the TCP flow 10.0.0.1:4444 -> 10.0.0.2:80,
\* the UDP flow 192.168.1.10:5000 -> 192.168.1.20:53, an ICMP echo, an IPv6 frame
FlowFrames ==
    { Frame(IPPROTO_TCP, Ip(10, 0, 0, 1), Ip(10, 0, 0, 2), 4444, 80, 0),
      Frame(IPPROTO_TCP, Ip(10, 0, 0, 1), Ip(10, 0, 0, 2), 4444, 80, 6),
      Frame(IPPROTO_UDP, Ip(192, 168, 1, 10), Ip(192, 168, 1, 20), 5000, 53, 12),
      Frame(IPPROTO_ICMP, Ip(10, 0, 0, 1), Ip(10, 0, 0, 2), 0, 0, 0),
      [Frame(IPPROTO_TCP, Ip(0, 0, 0, 0), Ip(0, 0, 0, 0), 0, 0, 0) EXCEPT !.etype = ETH_P_IPV6] }

(***************************************************************************)
(* State after the program is loaded: an empty map, every queue idle.      *)
(***************************************************************************)
InitFlowWith(m, s) ==
    /\ flow_map = m
    /\ now = 0
    /\ pc = [c \in RxQueues |-> "idle"]
    /\ ctx = [c \in RxQueues |-> NoFrame]
    /\ key = [c \in RxQueues |-> NoKey]
    /\ trace = [c \in RxQueues |-> << >>]
    /\ regs = [c \in RxQueues |-> NoRegs]
    /\ rc = [c \in RxQueues |-> 0]
    /\ verdict = [c \in RxQueues |-> 0]
    /\ sent = s
    /\ npkts = 0

InitFlow == InitFlowWith(<< >>, << >>)

AllIdle == \A c \in RxQueues : pc[c] = "idle"

\* the monotonic clock advances on its own
Tick ==
    /\ now < MaxTime
    /\ now' = now + 1
    /\ UNCHANGED <<flow_map, pc, ctx, key, trace, regs, rc, verdict, sent, npkts,
                   openvars, ringvars>>

\* receive queues are interchangeable and an idle queue holds no state: a new
\* packet is taken by the lowest idle queue
LowestIdle(c) == \A d \in RxQueues : d < c => pc[d] # "idle"

\* lines 50-94: the hook runs the program on queue c with frame f; the header
\* checks and the key touch only the frame and locals.  A failed check returns
\* XDP_PASS, otherwise the program goes on to the map with its key.
Recv(c, f, limit) ==
    /\ pc[c] = "idle"
    /\ LowestIdle(c)
    /\ npkts < limit
    /\ npkts' = npkts + 1
    /\ ctx' = [ctx EXCEPT ![c] = f]
    /\ LET r == XdpParse(Captured(f))
       IN  /\ trace' = [trace EXCEPT ![c] = r.trace]
           /\ key' = [key EXCEPT ![c] = r.key]
           /\ IF r.skip
              THEN /\ pc' = [pc EXCEPT ![c] = "ret"]
                   /\ verdict' = [verdict EXCEPT ![c] = XDP_PASS]
                   /\ sent' = sent
              ELSE /\ pc' = [pc EXCEPT ![c] = "lookup"]
                   /\ verdict' = verdict
                   /\ sent' = Account(r.key, FrameLen(f))
    /\ UNCHANGED <<flow_map, now, regs, rc, openvars, ringvars>>

\* lines 97-98: stats = bpf_map_lookup_elem(&flow_map, &key); if (!stats)
Lookup(c) ==
    /\ pc[c] = "lookup"
    /\ pc' = [pc EXCEPT ![c] = IF MapHas(flow_map, key[c]) THEN "load_packets" ELSE "first_seen"]
    /\ UNCHANGED <<flow_map, now, ctx, key, trace, regs, rc, verdict, sent, npkts,
                   openvars, ringvars>>

\* line 102: .first_seen = bpf_ktime_get_ns(); the initializers run in source order
FirstSeen(c) ==
    /\ pc[c] = "first_seen"
    /\ regs' = [regs EXCEPT ![c].a = now]
    /\ pc' = [pc EXCEPT ![c] = "last_seen"]
    /\ UNCHANGED <<flow_map, now, ctx, key, trace, rc, verdict, sent, npkts,
                   openvars, ringvars>>

\* line 103: .last_seen = bpf_ktime_get_ns(), a second reading of the clock
LastSeen(c) ==
    /\ pc[c] = "last_seen"
    /\ regs' = [regs EXCEPT ![c].b = now]
    /\ pc' = [pc EXCEPT ![c] = "update"]
    /\ UNCHANGED <<flow_map, now, ctx, key, trace, rc, verdict, sent, npkts,
                   openvars, ringvars>>

\* a variant of line 112: a failed map update is handed on as the program's result
AfterUpdate_Rc(r) == IF r < 0 THEN r ELSE XDP_PASS

\* lines 105 and 112: the result of bpf_map_update_elem is not looked at; the
\* program returns XDP_PASS
AfterUpdate(r) == XDP_PASS

\* line 105: bpf_map_update_elem(&flow_map, &key, &new_stats, BPF_ANY); the
\* return value is not looked at
Update(c) ==
    /\ pc[c] = "update"
    /\ rc' = [rc EXCEPT ![c] = MapUpdateRc(flow_map, key[c])]
    /\ flow_map' = MapUpdate(flow_map, key[c],
                             NewStats(FrameLen(ctx[c]), regs[c].a, regs[c].b))
    /\ pc' = [pc EXCEPT ![c] = "ret"]
    /\ verdict' = [verdict EXCEPT ![c] = AfterUpdate(MapUpdateRc(flow_map, key[c]))]
    /\ UNCHANGED <<now, ctx, key, trace, regs, sent, npkts, openvars, ringvars>>

\* line 107, first half: load stats->packet_count
LoadPackets(c) ==
    /\ pc[c] = "load_packets"
    /\ regs' = [regs EXCEPT ![c].a = flow_map[key[c]].packet_count]
    /\ pc' = [pc EXCEPT ![c] = "store_packets"]
    /\ UNCHANGED <<flow_map, now, ctx, key, trace, rc, verdict, sent, npkts,
                   openvars, ringvars>>

\* line 107, second half: store the incremented value
StorePackets(c) ==
    /\ pc[c] = "store_packets"
    /\ flow_map' = [flow_map EXCEPT ![key[c]].packet_count = IncPackets(regs[c].a)]
    /\ pc' = [pc EXCEPT ![c] = "load_bytes"]
    /\ UNCHANGED <<now, ctx, key, trace, regs, rc, verdict, sent, npkts,
                   openvars, ringvars>>

\* line 108, first half: load stats->byte_count
LoadBytes(c) ==
    /\ pc[c] = "load_bytes"
    /\ regs' = [regs EXCEPT ![c].a = flow_map[key[c]].byte_count]
    /\ pc' = [pc EXCEPT ![c] = "store_bytes"]
    /\ UNCHANGED <<flow_map, now, ctx, key, trace, rc, verdict, sent, npkts,
                   openvars, ringvars>>

\* line 108, second half: store the sum
StoreBytes(c) ==
    /\ pc[c] = "store_bytes"
    /\ flow_map' = [flow_map EXCEPT
                      ![key[c]].byte_count = AddBytes(regs[c].a, FrameLen(ctx[c]))]
    /\ pc' = [pc EXCEPT ![c] = "read_clock"]
    /\ UNCHANGED <<now, ctx, key, trace, regs, rc, verdict, sent, npkts,
                   openvars, ringvars>>

\* line 109, first half: bpf_ktime_get_ns()
ReadClock(c) ==
    /\ pc[c] = "read_clock"
    /\ regs' = [regs EXCEPT ![c].a = now]
    /\ pc' = [pc EXCEPT ![c] = "store_last_seen"]
    /\ UNCHANGED <<flow_map, now, ctx, key, trace, rc, verdict, sent, npkts,
                   openvars, ringvars>>

\* line 109, second half: stats->last_seen = the value read
StoreLastSeen(c) ==
    /\ pc[c] = "store_last_seen"
    /\ flow_map' = [flow_map EXCEPT ![key[c]].last_seen = regs[c].a]
    /\ pc' = [pc EXCEPT ![c] = "ret"]
    /\ verdict' = [verdict EXCEPT ![c] = XDP_PASS]
    /\ UNCHANGED <<now, ctx, key, trace, regs, rc, sent, npkts, openvars, ringvars>>

\* lines 56, 61, 66, 80, 89, 112: return; the locals of the invocation die
Return(c) ==
    /\ pc[c] = "ret"
    /\ pc' = [pc EXCEPT ![c] = "idle"]
    /\ ctx' = [ctx EXCEPT ![c] = NoFrame]
    /\ key' = [key EXCEPT ![c] = NoKey]
    /\ trace' = [trace EXCEPT ![c] = << >>]
    /\ regs' = [regs EXCEPT ![c] = NoRegs]
    /\ rc' = [rc EXCEPT ![c] = 0]
    /\ verdict' = [verdict EXCEPT ![c] = 0]
    /\ UNCHANGED <<flow_map, now, sent, npkts, openvars, ringvars>>

Step(c) ==
    \/ Lookup(c)
    \/ FirstSeen(c) \/ LastSeen(c) \/ Update(c)
    \/ LoadPackets(c) \/ StorePackets(c) \/ LoadBytes(c) \/ StoreBytes(c)
    \/ ReadClock(c) \/ StoreLastSeen(c)
    \/ Return(c)

(***************************************************************************)
(* af_packet_capture.c: ring geometry and af_packet_init.                  *)
(***************************************************************************)
RING_SIZE == 4194304
BLOCK_SIZE == 65536
FRAME_SIZE == 2048
RETIRE_TOV == 10
MAP_FAILED == -1
NoRing == -2
NoFd == -2

\* interfaces the caller may name; only the first exists on the host
Interfaces == {"lo", "eth9"}
IfExists(name) == name = "lo"

\* socket(2) returns the lowest descriptor not in use; 0, 1, 2 are the standard streams
LowestFree(open) == CHOOSE n \in 3..(3 + Cardinality(open)) :
    n \notin open /\ \A m \in 3..(n - 1) : m \in open

\* a slip in line 86: the frame count computed from the block size
RingRequest_BlockFrames ==
    [tp_block_size |-> BLOCK_SIZE, tp_frame_size |-> FRAME_SIZE,
     tp_block_nr |-> RING_SIZE \div BLOCK_SIZE, tp_frame_nr |-> RING_SIZE \div BLOCK_SIZE,
     tp_retire_blk_tov |-> RETIRE_TOV, tp_sizeof_priv |-> 0, tp_feature_req_word |-> 0]

\* line 95: the length argument of mmap
MmapLength == RING_SIZE

\* lines 82-87: the tpacket_req3 request
RingRequest ==
    [tp_block_size |-> BLOCK_SIZE, tp_frame_size |-> FRAME_SIZE,
     tp_block_nr |-> RING_SIZE \div BLOCK_SIZE, tp_frame_nr |-> RING_SIZE \div FRAME_SIZE,
     tp_retire_blk_tov |-> RETIRE_TOV, tp_sizeof_priv |-> 0, tp_feature_req_word |-> 0]

\* a variant of the error returns: one code per failing step
ErrorReturn_Typed(step) ==
    CASE step = "socket" -> -1
      [] step = "ioctl" -> -2
      [] step = "bind" -> -3
      [] OTHER -> -4

\* lines 60, 67, 78, 91, 98: return -1, whichever step failed
ErrorReturn(step) == -1

\* a slip in lines 66, 77, 90, 97: the error return without close(sockfd)
CloseOnError_Leak(open, fd) == open

\* lines 66, 77, 90, 97: close(sockfd) before the error return
CloseOnError(open, fd) == open \ {fd}

\* close(2) of a socket nothing maps any more frees its RX ring with it
RingsAfterClose(rings, open, maps) ==
    [fd \in {x \in DOMAIN rings : x \in open \/ x \in maps} |-> rings[fd]]

InitOpen ==
    /\ ipc = "idle"
    /\ ifname = ""
    /\ sockfd = NoFd
    /\ ring = NoRing
    /\ fds = {}
    /\ rx_rings = << >>
    /\ mappings = {}
    /\ calls = << >>
    /\ failed = "none"
    /\ result = 0
    /\ history = {}
    /\ nopens = 0

\* line 51: af_packet_init(interface) is called
OpenCall(name) ==
    /\ ipc = "idle"
    /\ nopens < MaxOpens
    /\ nopens' = nopens + 1
    /\ ifname' = name
    /\ sockfd' = NoFd
    /\ ring' = NoRing
    /\ calls' = << >>
    /\ failed' = "none"
    /\ result' = 0
    /\ ipc' = "socket"
    /\ UNCHANGED <<fds, rx_rings, mappings, history, flowvars, ringvars>>

\* the error return of a step: close the socket if one was opened, return
FailAt(step, opened) ==
    /\ failed' = step
    /\ fds' = IF opened THEN CloseOnError(fds, sockfd) ELSE fds
    /\ rx_rings' = RingsAfterClose(rx_rings, fds', mappings)
    /\ result' = ErrorReturn(step)
    /\ ipc' = "ret"

\* lines 58-61: sockfd = socket(AF_PACKET, SOCK_RAW, htons(ETH_P_ALL))
Socket(ok) ==
    /\ ipc = "socket"
    /\ calls' = Append(calls, "socket")
    /\ IF ok
       THEN /\ sockfd' = LowestFree(fds)
            /\ fds' = fds \cup {LowestFree(fds)}
            /\ ipc' = "ioctl"
            /\ UNCHANGED <<rx_rings, failed, result>>
       ELSE /\ sockfd' = -1
            /\ FailAt("socket", FALSE)
    /\ UNCHANGED <<ifname, ring, mappings, history, nopens, flowvars, ringvars>>

\* lines 64-68: ioctl(sockfd, SIOCGIFINDEX, &ifr)
Ioctl ==
    /\ ipc = "ioctl"
    /\ calls' = Append(calls, "ioctl")
    /\ IF IfExists(ifname)
       THEN /\ ipc' = "bind"
            /\ UNCHANGED <<fds, rx_rings, failed, result>>
       ELSE FailAt("ioctl", TRUE)
    /\ UNCHANGED <<ifname, sockfd, ring, mappings, history, nopens, flowvars, ringvars>>

\* lines 71-79: bind(sockfd, &sll, sizeof(sll))
Bind(ok) ==
    /\ ipc = "bind"
    /\ calls' = Append(calls, "bind")
    /\ IF ok
       THEN /\ ipc' = "setsockopt"
            /\ UNCHANGED <<fds, rx_rings, failed, result>>
       ELSE FailAt("bind", TRUE)
    /\ UNCHANGED <<ifname, sockfd, ring, mappings, history, nopens, flowvars, ringvars>>

\* lines 82-92: setsockopt(sockfd, SOL_PACKET, PACKET_RX_RING, &req, sizeof(req))
Setsockopt(ok) ==
    /\ ipc = "setsockopt"
    /\ calls' = Append(calls, "setsockopt")
    /\ IF ok
       THEN /\ rx_rings' = [fd \in DOMAIN rx_rings \cup {sockfd} |->
                               IF fd = sockfd THEN RingRequest ELSE rx_rings[fd]]
            /\ ipc' = "mmap"
            /\ UNCHANGED <<fds, failed, result>>
       ELSE FailAt("setsockopt", TRUE)
    /\ UNCHANGED <<ifname, sockfd, ring, mappings, history, nopens, flowvars, ringvars>>

\* the address mmap(2) picks for the ring of socket fd: page-aligned, and distinct
\* mappings do not overlap
RingAddr(fd) == fd * RING_SIZE

\* lines 95-101: ring = mmap(NULL, RING_SIZE, ..., sockfd, 0); return sockfd
Mmap(ok) ==
    /\ ipc = "mmap"
    /\ calls' = Append(calls, "mmap")
    /\ IF ok
       THEN /\ ring' = RingAddr(sockfd)
            /\ mappings' = mappings \cup {sockfd}
            /\ result' = sockfd
            /\ ipc' = "ret"
            /\ UNCHANGED <<fds, rx_rings, failed>>
       ELSE /\ ring' = MAP_FAILED
            /\ mappings' = mappings
            /\ FailAt("mmap", TRUE)
    /\ UNCHANGED <<ifname, sockfd, history, nopens, flowvars, ringvars>>

\* the call has returned: its locals (sockfd, ring) are gone, the caller has result
OpenReturn ==
    /\ ipc = "ret"
    /\ history' = history \cup {[step |-> failed, ret |-> result]}
    /\ ipc' = "idle"
    /\ sockfd' = NoFd
    /\ ring' = NoRing
    /\ UNCHANGED <<ifname, fds, rx_rings, mappings, calls, failed, result, nopens,
                   flowvars, ringvars>>

NextOpen ==
    \/ \E name \in Interfaces : OpenCall(name)
    \/ \E ok \in BOOLEAN : Socket(ok)
    \/ Ioctl
    \/ \E ok \in BOOLEAN : Bind(ok)
    \/ \E ok \in BOOLEAN : Setsockopt(ok)
    \/ \E ok \in BOOLEAN : Mmap(ok)
    \/ OpenReturn

(***************************************************************************)
(* The ring shared with the kernel (TPACKET_V3 block layout) and           *)
(* af_packet_process.  A block is kernel-owned until the kernel retires    *)
(* it; the kernel side is the Ring Block lifecycle of the design.          *)
(***************************************************************************)
TP_STATUS_KERNEL == 0
TP_STATUS_USER == 1
\* offset of the first frame in an opened block, and of the link-layer header
\* inside a frame (tp_mac) as the kernel lays them out
BLK_HDR_LEN == 48
TP_MAC_OFF == 82

NumBlocks == RING_SIZE \div BLOCK_SIZE

Align8(n) == ((n + 7) \div 8) * 8

\* a block the kernel has not opened yet: zeroed memory, kernel-owned
ZeroBlock == [block_status |-> TP_STATUS_KERNEL, num_pkts |-> 0,
              offset_to_first_pkt |-> 0, frames |-> << >>]
OpenedBlock == [ZeroBlock EXCEPT !.offset_to_first_pkt = BLK_HDR_LEN]

BlockAt(b) == IF b \in DOMAIN blocks THEN blocks[b] ELSE ZeroBlock

\* the byte offset inside the block at which the next frame goes
NextOffset(blk) ==
    IF blk.frames = << >> THEN blk.offset_to_first_pkt
    ELSE LET last == blk.frames[Len(blk.frames)]
         IN  last.off + Align8(TP_MAC_OFF + last.tp_snaplen)

\* captured lengths of the frames the kernel writes
SnapLens == {42, 60}
\* arguments the caller passes to af_packet_process
BlockArgs == {0, 1}
FrameArgs == {0, 1}

InitRing ==
    /\ blocks = [b \in {0} |-> OpenedBlock]
    /\ kblk = 0
    /\ upc = "idle"
    /\ uargs = [block_idx |-> 0, frame_idx |-> 0]
    /\ uframe = 0
    /\ ureads = << >>
    /\ nframes = 0

\* kernel: a packet arrives and is written into the block being filled
KernelWrite(snap) ==
    /\ nframes < MaxFrames
    /\ BlockAt(kblk).block_status = TP_STATUS_KERNEL
    /\ LET blk == BlockAt(kblk)
           off == NextOffset(blk)
       IN  /\ off + Align8(TP_MAC_OFF + snap) <= BLOCK_SIZE
           /\ blocks' = [blocks EXCEPT ![kblk] =
                  [blk EXCEPT !.num_pkts = blk.num_pkts + 1,
                              !.frames = Append(blk.frames,
                                  [off |-> off, tp_snaplen |-> snap, tp_mac |-> TP_MAC_OFF])]]
    /\ nframes' = nframes + 1
    /\ UNCHANGED <<kblk, upc, uargs, uframe, ureads, flowvars, openvars>>

\* kernel: the block is full or its retire timeout fired; hand it to user space
\* and open the next block if the kernel owns it
KernelRetire ==
    /\ BlockAt(kblk).block_status = TP_STATUS_KERNEL
    /\ kblk \in DOMAIN blocks
    /\ LET nxt == (kblk + 1) % NumBlocks
           retired == [blocks EXCEPT ![kblk].block_status = TP_STATUS_USER]
       IN  /\ nxt \notin DOMAIN blocks
           /\ blocks' = [b \in DOMAIN blocks \cup {nxt} |->
                            IF b = nxt THEN OpenedBlock ELSE retired[b]]
           /\ kblk' = nxt
    /\ Cardinality(DOMAIN blocks) <= MaxFrames
    /\ UNCHANGED <<upc, uargs, uframe, ureads, nframes, flowvars, openvars>>

\* the status word of the block that holds ring offset addr
OwnerAt(addr) == BlockAt(addr \div BLOCK_SIZE).block_status

RingLoad(what, addr) ==
    [what |-> what, addr |-> addr, block |-> addr \div BLOCK_SIZE, owner |-> OwnerAt(addr)]

\* line 108: af_packet_process(ring, block_idx, frame_idx) is called
ProcessCall(b, i) ==
    /\ upc = "idle"
    /\ uargs' = [block_idx |-> b, frame_idx |-> i]
    /\ ureads' = << >>
    /\ uframe' = 0
    /\ upc' = "block"
    /\ UNCHANGED <<blocks, kblk, nframes, flowvars, openvars>>

\* line 115: frame = (char *)block + block->h1.offset_to_first_pkt + frame_idx * FRAME_SIZE
FrameAddr(b, first, i) == b * BLOCK_SIZE + first + i * FRAME_SIZE

\* lines 114-115: the block address, then a load of the descriptor's
\* offset_to_first_pkt; block_status is not loaded
ProcessBlock ==
    /\ upc = "block"
    /\ ureads' = Append(ureads, RingLoad("offset_to_first_pkt", uargs.block_idx * BLOCK_SIZE))
    /\ uframe' = FrameAddr(uargs.block_idx, BlockAt(uargs.block_idx).offset_to_first_pkt,
                           uargs.frame_idx)
    /\ upc' = "frame"
    /\ UNCHANGED <<blocks, kblk, uargs, nframes, flowvars, openvars>>

\* lines 116-120: hdr = frame; a load of hdr->tp_mac; eth and ip are only computed
ProcessFrame ==
    /\ upc = "frame"
    /\ ureads' = Append(ureads, RingLoad("tp_mac", uframe))
    /\ upc' = "ret"
    /\ UNCHANGED <<blocks, kblk, uargs, uframe, nframes, flowvars, openvars>>

\* line 125: return 0
ProcessReturn ==
    /\ upc = "ret"
    /\ upc' = "idle"
    /\ ureads' = << >>
    /\ uframe' = 0
    /\ UNCHANGED <<blocks, kblk, uargs, nframes, flowvars, openvars>>

NextRing ==
    \/ \E snap \in SnapLens : KernelWrite(snap)
    \/ KernelRetire
    \/ \E b \in BlockArgs, i \in FrameArgs : ProcessCall(b, i)
    \/ ProcessBlock
    \/ ProcessFrame
    \/ ProcessReturn

(***************************************************************************)
(* Specifications.                                                          *)
(*   Spec        : the flow table, receive queues running concurrently,    *)
(*                 from the empty table or from a table holding one flow   *)
(*   SpecSeq     : the flow table, one packet processed at a time          *)
(*   SpecExtract : one packet at a time, every frame shape (key extraction) *)
(*   SpecPortless: one packet at a time, protocols other than TCP and UDP  *)
(*   SpecOpen    : af_packet_init against a kernel that may fail any step  *)
(*   SpecRing    : the kernel writer and af_packet_process on the ring     *)
(***************************************************************************)
NextFlow ==
    \/ Tick
    \/ \E c \in RxQueues, f \in FlowFrames : Recv(c, f, MaxPackets)
    \/ \E c \in RxQueues : Step(c)

Next == NextFlow

Init == InitFlow /\ InitOpen /\ InitRing

\* the key whose fields are the raw header fields of the frame the sender built
HeaderKey(f) ==
    [src_ip |-> Raw32(f.saddr), dst_ip |-> Raw32(f.daddr),
     src_port |-> IF f.proto \in {IPPROTO_TCP, IPPROTO_UDP} THEN Htons(f.sport) ELSE 0,
     dst_port |-> IF f.proto \in {IPPROTO_TCP, IPPROTO_UDP} THEN Htons(f.dport) ELSE 0,
     protocol |-> f.proto]

\* the table after one 54-byte packet of the flow 10.0.0.1:4444 -> 10.0.0.2:80 at time 0
SeedFrame == Frame(IPPROTO_TCP, Ip(10, 0, 0, 1), Ip(10, 0, 0, 2), 4444, 80, 0)
SeedMap == [k \in {HeaderKey(SeedFrame)} |-> NewStats(FrameLen(SeedFrame), 0, 0)]
SeedSent == [k \in {HeaderKey(SeedFrame)} |-> [pkts |-> 1, bytes |-> FrameLen(SeedFrame)]]

\* the program as loaded, or as it is once that first packet has been counted
InitExtract ==
    /\ \/ InitFlowWith(<< >>, << >>)
       \/ InitFlowWith(SeedMap, SeedSent)
    /\ InitOpen
    /\ InitRing

InitRunning == InitExtract

Spec == InitRunning /\ [][Next]_vars

NextSeq ==
    \/ Tick
    \/ \E c \in RxQueues, f \in FlowFrames : AllIdle /\ Recv(c, f, MaxSeqPackets)
    \/ \E c \in RxQueues : Step(c)

SpecSeq == Init /\ [][NextSeq]_vars

SpecOpen == Init /\ [][NextOpen]_vars

SpecRing == Init /\ [][NextRing]_vars

(***************************************************************************)
(* Frame shapes for the key extraction: IPv4 with and without options,     *)
(* TCP, UDP and ICMP, short and long payloads, an IPv6 frame, each cut at  *)
(* every header boundary and one byte before it.                           *)
(***************************************************************************)
SnapCuts == {13, 14, 33, 34, 37, 38, 41, 42, 45, 46, 53, 54, 57, 58, 2048}

FrameShapes ==
    { [etype |-> ETH_P_IP, ihl |-> h, proto |-> p, saddr |-> Ip(10, 0, 0, 1),
       daddr |-> Ip(10, 0, 0, 2), sport |-> 4444, dport |-> 80, paylen |-> n, snap |-> s] :
         h \in {5, 6}, p \in {IPPROTO_TCP, IPPROTO_UDP, IPPROTO_ICMP}, n \in {0, 12},
         s \in SnapCuts }
    \cup
    { [etype |-> ETH_P_IPV6, ihl |-> 5, proto |-> IPPROTO_TCP, saddr |-> Ip(0, 0, 0, 0),
       daddr |-> Ip(0, 0, 0, 0), sport |-> 0, dport |-> 0, paylen |-> 0, snap |-> s] :
         s \in SnapCuts }

\* a cut beyond the end of the frame captures the whole frame: one such cut is kept
ExtractFrames == {f \in FrameShapes : f.snap < Len(Wire(f)) \/ f.snap = 2048}

NextExtract ==
    \/ Tick
    \/ \E c \in RxQueues, f \in ExtractFrames : AllIdle /\ Recv(c, f, MaxExtract)
    \/ \E c \in RxQueues : Step(c)

SpecExtract == InitExtract /\ [][NextExtract]_vars

(***************************************************************************)
(* Frames of protocols without ports: ICMP, GRE and SCTP (which the        *)
(* program treats as portless), with and without IP options, cut around   *)
(* the end of the IPv4 header.                                             *)
(***************************************************************************)
\* packets received in one behaviour of the portless specification
MaxPortless == 1

PortlessProtos == {IPPROTO_ICMP, 47, 132}
PortlessCuts == {33, 34, 37, 38, 2048}

PortlessShapes ==
    { [etype |-> ETH_P_IP, ihl |-> h, proto |-> p, saddr |-> Ip(10, 0, 0, 1),
       daddr |-> Ip(10, 0, 0, 2), sport |-> 0, dport |-> 0, paylen |-> n, snap |-> s] :
         h \in {5, 6}, p \in PortlessProtos, n \in {4}, s \in PortlessCuts }

PortlessFrames == {f \in PortlessShapes : f.snap < Len(Wire(f)) \/ f.snap = 2048}

\* the table after one 42-byte ICMP echo 10.0.0.1 -> 10.0.0.2 at time 0
SeedIcmp == Frame(IPPROTO_ICMP, Ip(10, 0, 0, 1), Ip(10, 0, 0, 2), 0, 0, 0)
SeedIcmpMap == [k \in {HeaderKey(SeedIcmp)} |-> NewStats(FrameLen(SeedIcmp), 0, 0)]
SeedIcmpSent == [k \in {HeaderKey(SeedIcmp)} |-> [pkts |-> 1, bytes |-> FrameLen(SeedIcmp)]]

InitPortless ==
    /\ \/ InitFlowWith(<< >>, << >>)
       \/ InitFlowWith(SeedIcmpMap, SeedIcmpSent)
    /\ InitOpen
    /\ InitRing

NextPortless ==
    \/ Tick
    \/ \E c \in RxQueues, f \in PortlessFrames : AllIdle /\ Recv(c, f, MaxPortless)
    \/ \E c \in RxQueues : Step(c)

SpecPortless == InitPortless /\ [][NextPortless]_vars

(***************************************************************************)
(* Properties.                                                             *)
(***************************************************************************)

\* C1 (SpecSeq): when packets are processed one at a time, then between packets
\* every key in the table has packet_count = number of packets of that key that
\* passed the header checks, byte_count = the sum of their frame lengths, and
\* last_seen >= first_seen.
SequentialCounting ==
    AllIdle =>
        \A k \in Present :
            /\ flow_map[k].packet_count = SentOf(k).pkts
            /\ flow_map[k].byte_count = SentOf(k).bytes
            /\ flow_map[k].last_seen >= flow_map[k].first_seen

\* three packets of one flow, of two different lengths (54 + 60 + 54 bytes), the
\* last one later than the first
SequentialCountingWitness ==
    /\ AllIdle
    /\ \E k \in Present :
          /\ flow_map[k].packet_count = 3
          /\ flow_map[k].byte_count = 168
          /\ flow_map[k].last_seen > flow_map[k].first_seen

\* C2 (Spec): with invocations interleaving on several receive queues, once all
\* of them have returned every key in the table has packet_count = number of
\* packets processed for it and byte_count = the sum of their frame lengths.
NoLostUpdate ==
    AllIdle =>
        \A k \in Present :
            /\ flow_map[k].packet_count = SentOf(k).pkts
            /\ flow_map[k].byte_count = SentOf(k).bytes

Full == Cardinality(Present) = MAX_FLOWS

\* a step of queue c on the insert path while its key is absent and the table is full
RejectedStep(c) ==
    /\ pc[c] \in {"lookup", "first_seen", "last_seen", "update"}
    /\ pc'[c] # pc[c]
    /\ ~MapHas(flow_map, key[c])
    /\ Full

\* C3 (Spec): the table never holds more than MAX_FLOWS keys, and a packet whose
\* key is absent from a full table changes nothing in the table (no key inserted,
\* none evicted, no stats touched) and still returns XDP_PASS.
CapacityBoundary ==
    /\ [](Cardinality(Present) <= MAX_FLOWS)
    /\ [][\A c \in RxQueues :
            RejectedStep(c) =>
                /\ flow_map' = flow_map
                /\ pc[c] = "update" => (pc'[c] = "ret" /\ verdict'[c] = XDP_PASS)]_vars

\* a new key was refused by the full table
CapacityBoundaryWitness ==
    \E c \in RxQueues :
        /\ pc[c] = "ret"
        /\ rc[c] = 0 - E2BIG
        /\ key[c] \notin Present
        /\ Full

\* the frame carries a complete IPv4 header of its own IHL and a complete TCP header
ValidTcp(f) ==
    /\ f.etype = ETH_P_IP
    /\ f.proto = IPPROTO_TCP
    /\ f.ihl \in 5..15
    /\ FrameLen(f) >= ETH_HLEN + f.ihl * 4 + TCPHDR_LEN

\* C4 (SpecExtract): for every frame with an IPv4 header of any IHL and a complete
\* TCP header, the key used for the table is (source address, destination address,
\* TCP source port, TCP destination port, 6), raw as in the headers, the ports
\* being those found IHL*4 bytes after the start of the IPv4 header.
KeyMatchesHeaders ==
    \A c \in RxQueues :
        (pc[c] # "idle" /\ ValidTcp(ctx[c])) => key[c] = HeaderKey(ctx[c])

\* the captured bytes cover Ethernet, an option-less IPv4 header and the UDP header
ValidUdpNoOptions(f) ==
    /\ f.etype = ETH_P_IP
    /\ f.proto = IPPROTO_UDP
    /\ f.ihl = 5
    /\ FrameLen(f) >= ETH_HLEN + IPHDR_LEN + UDPHDR_LEN

\* C5 (SpecExtract): every IPv4/UDP frame whose captured bytes cover the Ethernet,
\* IPv4 and 8-byte UDP headers is taken to the table under the key (source address,
\* destination address, UDP source port, UDP destination port, 17).  Stated for
\* headers without options, where the transport header is where the program
\* looks for it, so that only the length test decides.
UdpCounted ==
    \A c \in RxQueues :
        (pc[c] # "idle" /\ ValidUdpNoOptions(ctx[c])) =>
            (pc[c] # "ret" \/ rc[c] # 0 \/ MapHas(flow_map, key[c]))
            /\ key[c] = HeaderKey(ctx[c])

\* the frame is shorter than Ethernet + the fixed IPv4 header, or it is a TCP/UDP
\* frame whose transport header, IHL*4 bytes into the IPv4 header, is cut
Truncated(f) ==
    \/ FrameLen(f) < ETH_HLEN + IPHDR_LEN
    \/ /\ f.etype = ETH_P_IP
       /\ f.proto \in {IPPROTO_TCP, IPPROTO_UDP}
       /\ FrameLen(f) < ETH_HLEN + f.ihl * 4 + TransportLen(f)

\* C6 (SpecExtract): a truncated frame yields no flow key: the program returns
\* XDP_PASS straight from the header checks, so the table is not touched.
TruncationSkips ==
    \A c \in RxQueues :
        (pc[c] # "idle" /\ Truncated(ctx[c])) =>
            /\ pc[c] = "ret"
            /\ key[c] = NoKey
            /\ verdict[c] = XDP_PASS

\* C7 (SpecExtract): every load of a header field by xdp_flow_tracker lies inside
\* the captured bytes and comes after a comparison against data_end that covers
\* it.  (af_packet_process loads no field of the packet headers: lines 119-120
\* only compute the addresses of eth and ip.)
NoReadPastCapture ==
    \A c \in RxQueues :
        LET len == IF trace[c] = << >> THEN 0 ELSE FrameLen(ctx[c])
        IN  \A i \in DOMAIN trace[c] :
                trace[c][i].op = "load" =>
                    /\ trace[c][i].off + trace[c][i].size <= len
                    /\ \E j \in 1..(i - 1) :
                          /\ trace[c][j].op = "check"
                          /\ trace[c][j].end >= trace[c][i].off + trace[c][i].size

\* the TCP header ends exactly at data_end and the ports were loaded, and the
\* same with a UDP frame
NoReadPastCaptureWitness ==
    \E c \in RxQueues :
        /\ FrameLen(ctx[c]) = ETH_HLEN + IPHDR_LEN + TCPHDR_LEN
        /\ \E i \in DOMAIN trace[c] :
              trace[c][i].op = "load" /\ trace[c][i].field = "dest"

\* C8 (SpecRing): every load af_packet_process makes from a ring block, of its
\* descriptor or of a frame in it, happens while the block's status word says
\* user-owned.
ReadsOnlyUserOwned ==
    \A i \in DOMAIN ureads : ureads[i].owner = TP_STATUS_USER

SyscallOrder == <<"socket", "ioctl", "bind", "setsockopt", "mmap">>

StepIndex(step) == CHOOSE i \in DOMAIN SyscallOrder : SyscallOrder[i] = step

\* descriptors handed to callers by the calls that succeeded
SessionFds == {h.ret : h \in {x \in history : x.step = "none"}}

\* C9 (SpecOpen): when af_packet_init returns a failure, the system calls it made
\* are exactly the steps up to the failing one, each once, and the descriptor it
\* opened is closed, holds no RX ring and backs no mapping: the open descriptors
\* and mappings are those of earlier successful calls.
FailedOpenLeaksNothing ==
    (ipc = "ret" /\ failed # "none") =>
        /\ calls = SubSeq(SyscallOrder, 1, StepIndex(failed))
        /\ sockfd \notin fds
        /\ fds = SessionFds
        /\ DOMAIN rx_rings = SessionFds
        /\ mappings = SessionFds

\* the deepest failure: mmap failed after the ring was set up, while an earlier
\* session is still open
FailedOpenLeaksNothingWitness ==
    /\ ipc = "ret"
    /\ failed = "mmap"
    /\ fds # {}

\* the error kinds of the design: which kind a failing step stands for
ErrorKind(step) ==
    CASE step = "socket" -> "PermissionDenied"
      [] step = "ioctl" -> "InterfaceNotFound"
      [] step = "bind" -> "BindFailed"
      [] OTHER -> "RingSetupFailed"

FailedCalls == {h \in history : h.step # "none"}

HeldValues ==
    SessionFds \cup (IF ipc = "idle" THEN {} ELSE {sockfd, ring})

\* C11 (SpecOpen): the ring region mapped for a session stays reachable from the
\* session, so that it can be unmapped: the address of every mapping is held by
\* the running call or by a value af_packet_init returned.
RegionReachable ==
    \A fd \in mappings : RingAddr(fd) \in HeldValues

\* C12 (Spec): every execution of xdp_flow_tracker returns XDP_PASS, whether the
\* frame was skipped by the header checks, counted, or its new key refused by
\* the full table; before its return an execution has produced no verdict.
AlwaysPass ==
    \A c \in RxQueues :
        /\ pc[c] = "ret" => verdict[c] = XDP_PASS
        /\ pc[c] # "ret" => verdict[c] = 0

\* one execution whose new key the full table refused and one whose packet was
\* counted are both returning XDP_PASS
AlwaysPassWitness ==
    \E c, d \in RxQueues :
        /\ pc[c] = "ret" /\ rc[c] < 0 /\ verdict[c] = XDP_PASS
        /\ pc[d] = "ret" /\ key[d] \in Present /\ verdict[d] = XDP_PASS

\* C13 (Spec): no present -> absent transition: a key that has an entry in the
\* flow table has one after every step, whichever packet the step belongs to.
NeverAbsent == [][Present \subseteq Present']_vars

\* a key is in the table and an execution for a different key has gone through
\* its map update
NeverAbsentWitness ==
    \E k \in Present, c \in RxQueues :
        /\ pc[c] = "ret"
        /\ key[c] \notin {k, NoKey}

\* the step of queue c that inserts its absent key into a table with room
InsertStep(c) ==
    /\ pc[c] = "update"
    /\ pc'[c] = "ret"
    /\ ~MapHas(flow_map, key[c])
    /\ Cardinality(Present) < MAX_FLOWS

\* C14 (SpecSeq): the entry created for an absent key in a table with room has
\* packet_count = 1, byte_count = the frame length, l7_protocol = 0 and
\* first_seen = last_seen, also when the clock advances while the program runs.
InsertValues ==
    [][\A c \in RxQueues :
          InsertStep(c) =>
              /\ MapHas(flow_map', key[c])
              /\ flow_map'[key[c]].packet_count = 1
              /\ flow_map'[key[c]].byte_count = FrameLen(ctx[c])
              /\ flow_map'[key[c]].l7_protocol = 0
              /\ flow_map'[key[c]].first_seen = flow_map'[key[c]].last_seen]_vars

\* an IPv4 frame of a protocol other than TCP and UDP whose captured bytes hold
\* the whole IPv4 header, options included
CompletePortless(f) ==
    /\ f.etype = ETH_P_IP
    /\ f.proto \notin {IPPROTO_TCP, IPPROTO_UDP}
    /\ FrameLen(f) >= ETH_HLEN + f.ihl * 4

\* C15 (SpecPortless): every IPv4 frame with a complete IPv4 header whose protocol
\* is neither TCP nor UDP goes to the table under the key (source address,
\* destination address, 0, 0, protocol), whatever follows the IPv4 header and
\* however little of it was captured; when the program returns, the key is in the
\* table unless the full table refused it as a new key.
PortlessCounted ==
    \A c \in RxQueues :
        (pc[c] # "idle" /\ CompletePortless(ctx[c])) =>
            /\ key[c] = HeaderKey(ctx[c])
            /\ pc[c] = "ret" => (MapHas(flow_map, key[c]) \/ (rc[c] = 0 - E2BIG /\ Full))

\* an SCTP frame of which nothing but the Ethernet and IPv4 headers was captured
\* has been inserted with ports 0
PortlessCountedWitness ==
    \E c \in RxQueues :
        /\ pc[c] = "ret"
        /\ ctx[c].proto = 132
        /\ FrameLen(ctx[c]) = ETH_HLEN + IPHDR_LEN
        /\ MapHas(flow_map, key[c])
        /\ key[c].src_port = 0 /\ key[c].dst_port = 0 /\ key[c].protocol = 132

\* the ring offset of the header of the i-th frame (from 0) the kernel wrote into
\* block b: the frames follow one another at the kernel's next-frame offsets
ArrivalAddr(b, i) == b * BLOCK_SIZE + BlockAt(b).frames[i + 1].off

\* C16 (SpecRing): for a user-owned block b holding n frames and an index
\* 0 <= i < n, the frame address af_packet_process(ring, b, i) computes is that
\* of the header of the i-th frame in kernel arrival order.
FrameAddressing ==
    (/\ upc = "frame"
     /\ BlockAt(uargs.block_idx).block_status = TP_STATUS_USER
     /\ uargs.frame_idx < Len(BlockAt(uargs.block_idx).frames))
        => uframe = ArrivalAddr(uargs.block_idx, uargs.frame_idx)

\* line 26, and the ring format of a packet socket on which no PACKET_VERSION
\* was set
TPACKET_V3 == 3
TPACKET_V1 == 0

\* the ring format of the socket after the system calls cs
VersionAfter(cs) ==
    IF \E j \in DOMAIN cs : cs[j] = "setsockopt PACKET_VERSION" THEN TPACKET_V3
    ELSE TPACKET_V1

\* the PACKET_RX_RING requests among the calls of the running af_packet_init
RingRequests == {i \in DOMAIN calls : calls[i] = "setsockopt"}

\* C17 (SpecOpen): af_packet_init has selected TPACKET_V3 on the socket before it
\* issues the PACKET_RX_RING request, so the ring is created in the
\* block-descriptor layout.
RingIsV3 ==
    \A i \in RingRequests : VersionAfter(SubSeq(calls, 1, i - 1)) = TPACKET_V3

RECURSIVE IsPow2(_)
IsPow2(n) == n = 1 \/ (n > 1 /\ n % 2 = 0 /\ IsPow2(n \div 2))

\* v fits an unsigned 32-bit field: v < 2^32 = 65536 * 65536
FitsU32(v) == v >= 0 /\ v \div 65536 < 65536

Geometry(req) ==
    /\ req.tp_block_size >= req.tp_frame_size
    /\ IsPow2(req.tp_block_size)
    /\ IsPow2(req.tp_frame_size)
    /\ req.tp_block_size % req.tp_frame_size = 0
    /\ req.tp_block_nr * req.tp_block_size = RING_SIZE
    /\ RING_SIZE = MmapLength
    /\ req.tp_frame_nr = (req.tp_block_size \div req.tp_frame_size) * req.tp_block_nr
    /\ \A fld \in DOMAIN req : FitsU32(req[fld])

\* C18 (SpecOpen): every ring request af_packet_init hands to the kernel has
\* block size >= frame size, both powers of two, the block size a multiple of the
\* frame size, tp_block_nr * tp_block_size = RING_SIZE = the mapped length,
\* tp_frame_nr = (tp_block_size / tp_frame_size) * tp_block_nr, every field within
\* 32 bits: 64 blocks of 64 KiB, 2048 frames of 2 KiB, 4 MiB in all.
RingGeometry ==
    \A fd \in DOMAIN rx_rings :
        /\ Geometry(rx_rings[fd])
        /\ rx_rings[fd].tp_block_size = 65536 /\ rx_rings[fd].tp_frame_size = 2048
        /\ rx_rings[fd].tp_block_nr = 64 /\ rx_rings[fd].tp_frame_nr = 2048
        /\ MmapLength = 4194304

\* the kernel holds the ring of a call that has also mapped it
RingGeometryWitness ==
    /\ ipc = "ret"
    /\ failed = "none"
    /\ sockfd \in DOMAIN rx_rings
    /\ sockfd \in mappings
    /\ ring = RingAddr(sockfd)

\* C19 (Spec): under every interleaving of invocations on several receive
\* queues, in every step an existing entry's packet_count and byte_count do not
\* decrease, its first_seen does not change and its last_seen does not decrease.
MonotonicStats ==
    [][\A k \in Present \cap DOMAIN flow_map' :
          /\ flow_map'[k].packet_count >= flow_map[k].packet_count
          /\ flow_map'[k].byte_count >= flow_map[k].byte_count
          /\ flow_map'[k].first_seen = flow_map[k].first_seen
          /\ flow_map'[k].last_seen >= flow_map[k].last_seen]_vars

\* queue c makes the step: it takes a packet or moves on inside the program
Moves(c) == pc'[c] # pc[c]

\* the frame of the invocation that makes the step, and the key its headers spell
StepFrame(c) == IF pc[c] = "idle" THEN ctx'[c] ELSE ctx[c]
StepKey(c) == HeaderKey(StepFrame(c))

\* C20 (Spec): a step of the processing of one packet changes at most the entry
\* of the packet's own key: every other key keeps its presence and its stats, the
\* number of keys grows by at most one, and a frame whose EtherType is not IPv4
\* changes nothing in the table.
SingleKeyEffect ==
    [][\A c \in RxQueues :
          Moves(c) =>
              /\ \A k \in (Present \cup DOMAIN flow_map') \ {StepKey(c)} :
                     /\ k \in Present
                     /\ k \in DOMAIN flow_map'
                     /\ flow_map'[k] = flow_map[k]
              /\ Cardinality(DOMAIN flow_map') <= Cardinality(Present) + 1
              /\ StepFrame(c).etype # ETH_P_IP => flow_map' = flow_map]_vars

\* two flows are in the table, one of them just counted on one queue, while the
\* other queue returns from a frame that is not IPv4
SingleKeyEffectWitness ==
    \E c, d \in RxQueues :
        /\ pc[c] = "ret" /\ key[c] \in Present
        /\ Present \ {key[c]} # {}
        /\ pc[d] = "ret" /\ ctx[d].etype = ETH_P_IPV6

====
